---- MODULE Spec2Model ----
(***************************************************************************)
(* A model of MatOllama.py: the ThinkingProcessor splitter, the streamed   *)
(* transfers of OllamaClient (pull_model, create_model, push_model) and    *)
(* the chat turn of CLI._send_message over OllamaClient.chat_stream.       *)
(*                                                                         *)
(* Python strings are sequences of one-character strings.  Indexes into    *)
(* strings are 0-based as in the source; Slice(s, a, b) is s[a:b].         *)
(***************************************************************************)
EXTENDS Integers, Sequences, FiniteSets, TLC

(***************************************************************************)
(* Bounds of the model.                                                    *)
(***************************************************************************)
\* pieces (a letter, "<think>" or "</think>") in the text fed to the splitter
MaxPieces == 4
\* process_chunk calls on one ThinkingProcessor in the splitter specification
MaxChunks == 2
\* lines one transfer call takes from its stream
MaxLines == 3
\* lines chat_stream takes from the stream of one chat turn
MaxChatLines == 2
\* a chat turn starts only while history holds fewer messages than this
MaxHistory == 2

\* the events of a stream of progress events
MaxEvents == 1

\* the records of a session file that cmd_save did not write
MaxStored == 2

(***************************************************************************)
(* Strings.                                                                *)
(***************************************************************************)
\* "<think>", the literal searched for at line 333
OpenTag == <<"<", "t", "h", "i", "n", "k", ">">>

\* "</think>", the literal searched for at line 344
CloseTag == <<"<", "/", "t", "h", "i", "n", "k", ">">>

\* i = pos + 7
OpenSkip == 7

\* i = pos + 8
CloseSkip == 8

\* s[a:b] for 0 <= a, b <= len(s)
Slice(s, a, b) == SubSeq(s, a + 1, b)

\* s.find(pat, i): the lowest index >= i where pat occurs in s, or -1
Find(s, pat, i) ==
    LET hits == {p \in i..(Len(s) - Len(pat)) : SubSeq(s, p + 1, p + Len(pat)) = pat}
    IN  IF hits = {} THEN -1 ELSE CHOOSE p \in hits : \A q \in hits : p <= q

\* pat in s
Contains(s, pat) == Find(s, pat, 0) # -1

\* s.startswith(pat)
StartsWith(s, pat) == Len(s) >= Len(pat) /\ SubSeq(s, 1, Len(pat)) = pat

(***************************************************************************)
(* ThinkingProcessor.                                                      *)
(***************************************************************************)
\* ThinkingProcessor.__init__: the fields of a fresh processor
NewThinkingProcessor ==
    [thinking_active |-> FALSE, buffer |-> <<>>, thinking_content |-> <<>>,
     visible_content |-> <<>>, complete_thinking |-> <<>>]

\* ScanStart with thinking_content emptied at the start of every call
ScanStartFreshContent(self, chunk) ==
    [thinking_active |-> self.thinking_active,
     thinking_content |-> <<>>,
     complete_thinking |-> self.complete_thinking,
     processed |-> self.buffer \o chunk,
     new_thinking |-> <<>>, new_visible |-> <<>>,
     started |-> FALSE, finished |-> FALSE, i |-> 0, stop |-> FALSE]

\* the state of the scanning loop of process_chunk: the processor fields it
\* writes, the locals, and whether the loop has left by break or by i >= len
ScanStart(self, chunk) ==
    [thinking_active |-> self.thinking_active,
     thinking_content |-> self.thinking_content,
     complete_thinking |-> self.complete_thinking,
     processed |-> self.buffer \o chunk,
     new_thinking |-> <<>>, new_visible |-> <<>>,
     started |-> FALSE, finished |-> FALSE, i |-> 0, stop |-> FALSE]

\* OutsideNoTag holding back a trailing "<" as the possible start of a marker,
\* which the next call never sees (the buffer is emptied on every call)
OutsideNoTagHoldsTail(st) ==
    LET rest == Slice(st.processed, st.i, Len(st.processed))
        kept == IF rest # <<>> /\ rest[Len(rest)] = "<"
                THEN SubSeq(rest, 1, Len(rest) - 1) ELSE rest
    IN  [st EXCEPT !.new_visible = @ \o kept, !.stop = TRUE]

\* not thinking_active, find("<think>") == -1: the rest is visible; break
OutsideNoTag(st) ==
    [st EXCEPT !.new_visible = @ \o Slice(st.processed, st.i, Len(st.processed)),
               !.stop = TRUE]

\* OutsideTag dropping the visible text that stands before the marker
OutsideTagDropsPrefix(st, pos) ==
    [st EXCEPT !.thinking_active = TRUE,
               !.thinking_content = <<>>,
               !.started = TRUE,
               !.i = pos + OpenSkip]

\* OutsideTag leaving thinking_content as the earlier blocks left it
OutsideTagKeepsContent(st, pos) ==
    [st EXCEPT !.new_visible = @ \o Slice(st.processed, st.i, pos),
               !.thinking_active = TRUE,
               !.started = TRUE,
               !.i = pos + OpenSkip]

\* not thinking_active, "<think>" found at pos
OutsideTag(st, pos) ==
    [st EXCEPT !.new_visible = @ \o Slice(st.processed, st.i, pos),
               !.thinking_active = TRUE,
               !.thinking_content = <<>>,
               !.started = TRUE,
               !.i = pos + OpenSkip]

\* thinking_active, find("</think>") == -1: the rest is thinking; break
InsideNoTag(st) ==
    [st EXCEPT !.new_thinking = @ \o Slice(st.processed, st.i, Len(st.processed)),
               !.thinking_content = @ \o Slice(st.processed, st.i, Len(st.processed)),
               !.stop = TRUE]

\* InsideTag skipping the 7 characters of "<think>" instead of the 8 of "</think>"
InsideTagShortSkip(st, pos) ==
    LET piece == Slice(st.processed, st.i, pos)
    IN  [st EXCEPT !.new_thinking = @ \o piece,
                   !.thinking_content = @ \o piece,
                   !.complete_thinking = st.thinking_content \o piece,
                   !.thinking_active = FALSE,
                   !.finished = TRUE,
                   !.i = pos + OpenSkip]

\* thinking_active, "</think>" found at pos
InsideTag(st, pos) ==
    LET piece == Slice(st.processed, st.i, pos)
    IN  [st EXCEPT !.new_thinking = @ \o piece,
                   !.thinking_content = @ \o piece,
                   !.complete_thinking = st.thinking_content \o piece,
                   !.thinking_active = FALSE,
                   !.finished = TRUE,
                   !.i = pos + CloseSkip]

\* one iteration of the while loop of process_chunk
ScanStep(st) ==
    IF ~st.thinking_active
    THEN LET pos == Find(st.processed, OpenTag, st.i)
         IN  IF pos = -1 THEN OutsideNoTag(st) ELSE OutsideTag(st, pos)
    ELSE LET pos == Find(st.processed, CloseTag, st.i)
         IN  IF pos = -1 THEN InsideNoTag(st) ELSE InsideTag(st, pos)

\* while i < len(processed): ...
RECURSIVE ScanLoop(_)
ScanLoop(st) ==
    IF st.stop \/ st.i >= Len(st.processed) THEN st ELSE ScanLoop(ScanStep(st))

\* process_chunk: the processor after the call and the returned tuple
process_chunk(self, chunk) ==
    LET st == ScanLoop(ScanStart(self, chunk))
    IN  [self |-> [thinking_active |-> st.thinking_active,
                   buffer |-> <<>>,
                   thinking_content |-> st.thinking_content,
                   visible_content |-> self.visible_content \o st.new_visible,
                   complete_thinking |-> st.complete_thinking],
         new_thinking |-> st.new_thinking,
         new_visible |-> st.new_visible,
         started |-> st.started,
         finished |-> st.finished]

\* get_display_content
get_display_content(self) == self.visible_content

\* get_complete_thinking
get_complete_thinking(self) == self.complete_thinking

\* reset clearing the texts and leaving thinking_active as it is
reset_texts_only(self) ==
    [self EXCEPT !.buffer = <<>>, !.thinking_content = <<>>,
                 !.visible_content = <<>>, !.complete_thinking = <<>>]

\* reset
reset(self) == NewThinkingProcessor

\* what process_chunk returns before any call (no call has returned yet)
NoReturn ==
    [new_thinking |-> <<>>, new_visible |-> <<>>, started |-> FALSE, finished |-> FALSE]

(***************************************************************************)
(* State.                                                                  *)
(***************************************************************************)
VARIABLES
    \* the splitter on its own
    thinking,      \* the ThinkingProcessor (the local `thinking` of _send_message)
    text,          \* the whole text the chunks are cut from
    fed,           \* the chunks passed to process_chunk so far, in order
    ret,           \* the tuple returned by the last process_chunk call
    visible_out,   \* the concatenation of the visible deltas returned so far
    thinking_out,  \* the concatenation of the reasoning deltas returned so far
    \* a streamed transfer (pull_model, create_model, push_model)
    op,            \* the call in progress: "pull", "create", "push" or "none"
    pc,            \* "idle", "reading" (inside for line in r.iter_lines()) or "returned"
    completed,     \* the local `completed`
    result,        \* the value the call returned
    label,         \* the status field of the progress task, as last updated
    stream,        \* the lines the daemon sends in answer to the request
    lines,         \* the lines the read loop has taken from the stream, in order
    exit,          \* how the call was left: "break", "return", "raise" (an
                   \* exception of the loop body), "end" (no more lines),
                   \* "fail" (the transport raised), "open" (the request
                   \* raised), or "none" while it has not returned
    interrupted,   \* a SIGINT arrived while the call was reading its stream
    \* the chat session (CLI) and the chat turn in progress (_send_message)
    history,       \* self.history: a sequence of ChatMsg
    streaming,     \* self.streaming
    loading,       \* self.loading
    current_model, \* self.current_model, None when no model is loaded
    verbose,       \* self.verbose
    thinking_mode, \* self.thinking
    cpc,           \* "idle" (at the prompt) or "loop" (in the for loop of _send_message)
    local,         \* the locals of _send_message set before the loop
    gen,           \* the chat_stream generator: "reading" or "finished"
    pending,       \* what the generator yields before it reads another line
    nread,         \* the lines the generator has taken from the stream
    turn,          \* what happened in the turn (for the claims)
    \* the session file that cmd_save writes and cmd_load reads
    file,          \* what the file holds, NoFile when it is not there
    session,       \* what cmd_save and cmd_load last did (for the claims)
    \* cmd_rename and the daemon's models
    blocking_operation, \* self.blocking_operation
    store,         \* the names of the models the daemon holds
    rename         \* where cmd_rename stands, its locals and the requests it made

splitterVars == <<thinking, text, fed, ret, visible_out, thinking_out>>
transferVars == <<op, pc, completed, result, label, stream, lines, exit, interrupted>>
chatVars == <<history, streaming, loading, current_model, verbose, thinking_mode,
              cpc, local, gen, pending, nread, turn>>
sessionVars == <<file, session>>
renameVars == <<blocking_operation, store, rename>>
vars == <<splitterVars, transferVars, chatVars, sessionVars, renameVars>>

\* the transfer variables when no transfer is in progress
TransferIdle ==
    /\ op = "none"
    /\ pc = "idle"
    /\ completed = FALSE
    /\ result = FALSE
    /\ label = <<>>
    /\ stream = <<>>
    /\ lines = <<>>
    /\ exit = "none"
    /\ interrupted = FALSE

None == "None"

\* the reading of datetime.now(): the clock of the model stands still
Clock == "now"

\* the dataclass ChatMsg; ts defaults to datetime.now()
ChatMsg(role, content, ts) == [role |-> role, content |-> content, ts |-> ts]

\* line 1416: the list of {"role", "content"} built from a history
Messages(h) ==
    [k \in 1..Len(h) |-> [role |-> h[k].role, content |-> h[k].content]]

\* the locals of _send_message as lines 1428-1432 set them
NewLocals ==
    [thinking_displayed |-> FALSE, thinking_done_displayed |-> FALSE,
     is_thinking_model |-> FALSE, collected_response |-> <<>>, first_chunk |-> TRUE]

\* nothing has happened in the turn yet; base is len(history) after the
\* user's message was appended.  messages is the local `messages` of line
\* 1416, the list sent to the daemon; think and verbose are self.thinking
\* and self.verbose during the turn; reasoning and deltas are the
\* concatenations of the new_thinking and new_visible of the turn; shown is
\* what line 1463 has printed; display is thinking.get_display_content()
\* when the loop is left; done_event is <<>> until an event with a truthy
\* done is read and then holds what that event carried as content; origin
\* says, for each chunk of pending, what chat_stream made it from; handled
\* is <<>> or the origin of the chunk the loop body handled last and the
\* branch that handled it
NewTurn(base) ==
    [base |-> base, cancelled |-> "no", error_event |-> FALSE,
     transport_failed |-> FALSE, exit |-> "none", messages |-> <<>>, think |-> FALSE,
     verbose |-> FALSE,
     reasoning |-> <<>>, shown |-> <<>>, deltas |-> <<>>, display |-> <<>>,
     done_event |-> <<>>, origin |-> <<>>, handled |-> <<>>]

\* the chat variables of CLI.__init__ with the default configuration, no
\* model loaded
ChatIdle ==
    /\ history = <<>>
    /\ streaming = FALSE
    /\ loading = FALSE
    /\ current_model = None
    /\ verbose = FALSE
    /\ thinking_mode = TRUE
    /\ cpc = "idle"
    /\ local = NewLocals
    /\ gen = "finished"
    /\ pending = <<>>
    /\ nread = 0
    /\ turn = NewTurn(0)

\* no session file
NoFile == [kind |-> "none"]

\* nothing saved or loaded yet: fresh is whether the file is as the last
\* cmd_save wrote it, pairs the (role, content) pairs of history at that
\* cmd_save, loaded how the last cmd_load ended
NoSession == [fresh |-> FALSE, pairs |-> <<>>, loaded |-> "none"]

\* the session variables before any cmd_save or cmd_load
SessionIdle ==
    /\ file = NoFile
    /\ session = NoSession

\* cmd_rename has not been called: no locals, no request made, no outcome;
\* active and had are self.current_model and the daemon's models when the
\* call began
NoRename ==
    [pc |-> "idle", old_model |-> None, new_name |-> None, requests |-> <<>>,
     active |-> None, had |-> {}, outcome |-> "none"]

\* the rename variables of CLI.__init__, the daemon holding no model
RenameIdle ==
    /\ blocking_operation = FALSE
    /\ store = {}
    /\ rename = NoRename

\* the splitter variables when the splitter is not exercised on its own
SplitterIdle ==
    /\ thinking = NewThinkingProcessor
    /\ text = <<>>
    /\ fed = <<>>
    /\ ret = NoReturn
    /\ visible_out = <<>>
    /\ thinking_out = <<>>

(***************************************************************************)
(* The splitter on its own: a text is cut into at most MaxChunks chunks at *)
(* any positions and the chunks are fed to a fresh ThinkingProcessor.      *)
(***************************************************************************)
\* the letter standing at piece k of a text
Letter(k) == <<"a", "b", "c", "d", "e", "f", "g", "h">>[((k - 1) % 8) + 1]

PieceKinds == {"txt", "open", "close"}

\* the text of piece k of a shape
PieceText(kind, k) ==
    IF kind = "open" THEN OpenTag
    ELSE IF kind = "close" THEN CloseTag
    ELSE <<Letter(k)>>

RECURSIVE ShapeText(_, _)
ShapeText(shape, k) ==
    IF k > Len(shape) THEN <<>>
    ELSE PieceText(shape[k], k) \o ShapeText(shape, k + 1)

\* the text "A<think>B</think>C" of the specification's examples, and a
\* text with two reasoning blocks
ExampleShapes ==
    {<<"txt", "open", "txt", "close", "txt">>,
     <<"open", "txt", "close", "open", "txt", "close">>}

\* every text of up to MaxPieces pieces, and the examples
Texts ==
    {ShapeText(shape, 1) :
        shape \in ExampleShapes \cup UNION {[1..n -> PieceKinds] : n \in 0..MaxPieces}}

RECURSIVE Concat(_)
Concat(ss) == IF ss = <<>> THEN <<>> ELSE Head(ss) \o Concat(Tail(ss))

\* the number of characters of text already fed
FedLen == Len(Concat(fed))

SplitterInit ==
    /\ RenameIdle
    /\ thinking = NewThinkingProcessor
    /\ text \in Texts
    /\ fed = <<>>
    /\ ret = NoReturn
    /\ visible_out = <<>>
    /\ thinking_out = <<>>
    /\ TransferIdle
    /\ ChatIdle
    /\ SessionIdle

\* one call thinking.process_chunk(chunk): chunk is the next n characters of
\* the text, and the last of the MaxChunks chunks is the rest of the text
ProcessChunk ==
    /\ Len(fed) < MaxChunks
    /\ \E n \in 1..(Len(text) - FedLen) :
          /\ Len(fed) = MaxChunks - 1 => n = Len(text) - FedLen
          /\ LET chunk == Slice(text, FedLen, FedLen + n)
                 r == process_chunk(thinking, chunk)
             IN  /\ thinking' = r.self
                 /\ fed' = Append(fed, chunk)
                 /\ ret' = [new_thinking |-> r.new_thinking,
                            new_visible |-> r.new_visible,
                            started |-> r.started, finished |-> r.finished]
                 /\ visible_out' = visible_out \o r.new_visible
                 /\ thinking_out' = thinking_out \o r.new_thinking
    /\ UNCHANGED <<text, transferVars, chatVars>>
    /\ UNCHANGED <<sessionVars, renameVars>>

SplitterNext == ProcessChunk

SplitterSpec == SplitterInit /\ [][SplitterNext]_vars

(***************************************************************************)
(* Streamed transfers: pull_model, create_model, push_model.               *)
(*                                                                         *)
(* A line of the stream is what r.iter_lines() hands to the loop:          *)
(*   empty      b""                      (keep-alive)                      *)
(*   blank      whitespace only          (json.loads: JSONDecodeError)     *)
(*   notjson    text that is not JSON    (json.loads: JSONDecodeError)     *)
(*   nonobject  JSON that is no object, such as [1]  (data.get raises      *)
(*              AttributeError)                                            *)
(*   object     a JSON object, with or without "status" and "error"        *)
(***************************************************************************)
\* a key the JSON object does not hold
Absent == "<absent>"

Statuses == {"downloading", "pushing manifest", "success"}

\* the statuses s of the model with 'pushing' in s
PushingStatuses == {"pushing manifest"}

Errors == {"x"}

MalformedLines == {[kind |-> k] : k \in {"empty", "blank", "notjson", "nonobject"}}

ObjectLines ==
    [kind : {"object"}, status : Statuses \cup {Absent}, error : Errors \cup {Absent}]

Lines == MalformedLines \cup ObjectLines

\* every stream of up to MaxLines lines
Streams == UNION {[1..n -> Lines] : n \in 0..MaxLines}

Ops == {"pull", "create", "push"}

\* data.get('status', 'Unknown')
StatusOf(data) == IF data.status = Absent THEN "Unknown" ELSE data.status

\* 'error' in data
HasError(data) == data.error # Absent

\* 'completed' in data and 'total' in data
HasCounts(data) == "completed" \in DOMAIN data /\ "total" \in DOMAIN data

\* the bytes of a megabyte, 1024*1024
MiB == 1024 * 1024

\* f"{num / den:.1f}", in tenths: the quotient rounded to one decimal, a tie
\* going to the even digit
Tenths(num, den) ==
    LET q == (10 * num) \div den
        r == (10 * num) % den
    IN  IF 2 * r < den THEN q
        ELSE IF 2 * r > den THEN q + 1
        ELSE IF q % 2 = 0 THEN q ELSE q + 1

\* line 94: percent, in tenths as line 97 formats it
Percent(completed_bytes, total_bytes) ==
    IF total_bytes > 0 THEN Tenths(100 * completed_bytes, total_bytes) ELSE 0

\* lines 91-99: the label of a 'downloading' event: completed and total in
\* MB and the percentage, all in tenths, when the event holds both counts
downloading_label(data) ==
    IF HasCounts(data)
    THEN <<"Downloading", Tenths(data.completed, MiB), Tenths(data.total, MiB),
           Percent(data.completed, data.total)>>
    ELSE <<"Downloading...">>

\* what one pass of the loop body does: go on with the next line
\* ("continue"), leave the loop with completed = True ("break"), return False
\* from inside the loop ("return"), or raise out of the loop to the outer
\* except, which returns False ("raise"); and the progress label it sets
Step(act, lbl) == [act |-> act, label |-> lbl]

\* the label when the body leaves it alone
Keep == <<"keep">>

\* pull_object with the error branch reporting the error and going on to the
\* next line instead of returning False
pull_object_error_goes_on(data) ==
    LET status == StatusOf(data)
    IN  IF status = "pulling manifest" THEN Step("continue", <<"Pulling manifest...">>)
        ELSE IF status = "downloading" THEN Step("continue", downloading_label(data))
        ELSE IF status = "verifying sha256 digest" THEN Step("continue", <<"Verifying...">>)
        ELSE IF status = "writing manifest" THEN Step("continue", <<"Writing manifest...">>)
        ELSE IF status = "removing any unused layers" THEN Step("continue", <<"Cleaning up...">>)
        ELSE IF status = "success" THEN Step("break", <<"Complete!">>)
        ELSE IF HasError(data) THEN Step("continue", <<"Error: ", data.error>>)
        ELSE Step("continue", <<status>>)

\* pull_model, lines 87-118: the if/elif chain on a decoded object
pull_object(data) ==
    LET status == StatusOf(data)
    IN  IF status = "pulling manifest" THEN Step("continue", <<"Pulling manifest...">>)
        ELSE IF status = "downloading" THEN Step("continue", downloading_label(data))
        ELSE IF status = "verifying sha256 digest" THEN Step("continue", <<"Verifying...">>)
        ELSE IF status = "writing manifest" THEN Step("continue", <<"Writing manifest...">>)
        ELSE IF status = "removing any unused layers" THEN Step("continue", <<"Cleaning up...">>)
        ELSE IF status = "success" THEN Step("break", <<"Complete!">>)
        ELSE IF HasError(data) THEN Step("return", <<"Error: ", data.error>>)
        ELSE Step("continue", <<status>>)

\* pull_model, lines 82-124: the loop body on one line
pull_line(line) ==
    IF line.kind = "empty" THEN Step("continue", Keep)
    ELSE IF line.kind \in {"blank", "notjson"} THEN Step("continue", Keep)
    ELSE IF line.kind = "nonobject" THEN Step("continue", Keep)
    ELSE pull_object(line)

\* create_object with the success branch updating the label and going on to
\* the next line
create_object_success_goes_on(data) ==
    LET status == StatusOf(data)
    IN  IF HasError(data) THEN Step("return", <<"Error: ", data.error>>)
        ELSE IF status = "success" THEN Step("continue", <<"Complete!">>)
        ELSE Step("continue", <<"building", status>>)

\* create_model, lines 170-183: the if/elif chain on a decoded object
create_object(data) ==
    LET status == StatusOf(data)
    IN  IF HasError(data) THEN Step("return", <<"Error: ", data.error>>)
        ELSE IF status = "success" THEN Step("break", <<"Complete!">>)
        ELSE Step("continue", <<"building", status>>)

\* create_model, lines 165-186: the loop body on one line
create_line(line) ==
    IF line.kind = "empty" THEN Step("continue", Keep)
    ELSE IF line.kind \in {"blank", "notjson"} THEN Step("continue", Keep)
    ELSE IF line.kind = "nonobject" THEN Step("raise", Keep)
    ELSE create_object(line)

\* push_model, lines 216-231: the if/elif chain on a decoded object
push_object(data) ==
    LET status == StatusOf(data)
    IN  IF HasError(data) THEN Step("return", <<"Error: ", data.error>>)
        ELSE IF status = "success" THEN Step("break", <<"Complete!">>)
        ELSE IF status \in PushingStatuses THEN Step("continue", <<"up", status>>)
        ELSE Step("continue", <<"out", status>>)

\* push_model, lines 211-234: the loop body on one line
push_line(line) ==
    IF line.kind = "empty" THEN Step("continue", Keep)
    ELSE IF line.kind \in {"blank", "notjson"} THEN Step("continue", Keep)
    ELSE IF line.kind = "nonobject" THEN Step("raise", Keep)
    ELSE push_object(line)

\* the loop body of the call in progress
LineStep(o, line) ==
    IF o = "pull" THEN pull_line(line)
    ELSE IF o = "create" THEN create_line(line)
    ELSE push_line(line)

TransferInit ==
    /\ RenameIdle
    /\ TransferIdle
    /\ SplitterIdle
    /\ ChatIdle
    /\ SessionIdle

\* cmd_pull / cmd_create / cmd_push reach self.api.<op>_model and the request
\* is answered: the progress task is added and completed = False
StartTransfer ==
    /\ pc = "idle"
    /\ \E o \in Ops : op' = o
    /\ \E st \in Streams : stream' = st
    /\ pc' = "reading"
    /\ completed' = FALSE
    /\ label' = <<"Starting...">>
    /\ lines' = <<>>
    /\ exit' = "none"
    /\ interrupted' = FALSE
    /\ UNCHANGED <<result, splitterVars, chatVars>>
    /\ UNCHANGED <<sessionVars, renameVars>>

\* self._request raises (network error, timeout, HTTP error status): the
\* outer except returns False
OpenFails ==
    /\ pc = "idle"
    /\ \E o \in Ops : op' = o
    /\ pc' = "returned"
    /\ result' = FALSE
    /\ exit' = "open"
    /\ UNCHANGED <<completed, label, stream, lines, interrupted, splitterVars, chatVars>>
    /\ UNCHANGED <<sessionVars, renameVars>>

\* one pass of for line in r.iter_lines(), with all it does to the call
ReadLine ==
    /\ pc = "reading"
    /\ Len(lines) < Len(stream)
    /\ LET line == stream[Len(lines) + 1]
           step == LineStep(op, line)
       IN  /\ lines' = Append(lines, line)
           /\ label' = IF step.label = Keep THEN label ELSE step.label
           /\ completed' = (step.act = "break")
           /\ pc' = IF step.act = "continue" THEN "reading" ELSE "returned"
           /\ exit' = IF step.act = "continue" THEN "none" ELSE step.act
           /\ result' = IF step.act = "break" THEN TRUE
                        ELSE IF step.act = "continue" THEN result
                        ELSE FALSE
    /\ UNCHANGED <<op, stream, interrupted, splitterVars, chatVars>>
    /\ UNCHANGED <<sessionVars, renameVars>>

\* the stream ends: the loop is left and the call returns completed
StreamEnds ==
    /\ pc = "reading"
    /\ Len(lines) = Len(stream)
    /\ pc' = "returned"
    /\ result' = completed
    /\ exit' = "end"
    /\ UNCHANGED <<op, completed, label, stream, lines, interrupted, splitterVars, chatVars>>
    /\ UNCHANGED <<sessionVars, renameVars>>

\* r.iter_lines() raises while waiting for the next line (connection lost,
\* read timeout): the outer except returns False
StreamFails ==
    /\ pc = "reading"
    /\ pc' = "returned"
    /\ result' = FALSE
    /\ exit' = "fail"
    /\ UNCHANGED <<op, completed, label, stream, lines, interrupted, splitterVars, chatVars>>
    /\ UNCHANGED <<sessionVars, renameVars>>

\* CLI._signal_handler: what SIGINT does to self.streaming and self.loading
signal_handler ==
    IF streaming \/ loading
    THEN streaming' = FALSE /\ loading' = FALSE
    ELSE UNCHANGED <<streaming, loading>>

\* SIGINT while a transfer reads its stream: the handler runs, and nothing in
\* pull_model, create_model or push_model reads what it sets
SignalInTransfer ==
    /\ pc = "reading"
    /\ signal_handler
    /\ interrupted' = TRUE
    /\ UNCHANGED <<op, pc, completed, result, label, stream, lines, exit, splitterVars>>
    /\ UNCHANGED <<history, current_model, verbose, thinking_mode, cpc, local, gen,
                   pending, nread, turn>>
    /\ UNCHANGED <<sessionVars, renameVars>>

\* the command returns to the prompt of CLI.run
TransferReturns ==
    /\ pc = "returned"
    /\ op' = "none"
    /\ pc' = "idle"
    /\ completed' = FALSE
    /\ result' = FALSE
    /\ label' = <<>>
    /\ stream' = <<>>
    /\ lines' = <<>>
    /\ exit' = "none"
    /\ interrupted' = FALSE
    /\ UNCHANGED <<splitterVars, chatVars>>
    /\ UNCHANGED <<sessionVars, renameVars>>

TransferNext ==
    \/ StartTransfer
    \/ OpenFails
    \/ ReadLine
    \/ StreamEnds
    \/ StreamFails
    \/ SignalInTransfer
    \/ TransferReturns

TransferSpec == TransferInit /\ [][TransferNext]_vars

(***************************************************************************)
(* Progress events: a transfer whose request was answered by a stream of   *)
(* events that report byte counts.                                         *)
(***************************************************************************)
\* the values of "completed" and "total" in the events of the model
ByteCounts == {0, 1, 3, 50, 200}

\* an event with both counts, or with "completed" alone
ProgressEvents ==
    [kind : {"object"}, status : Statuses \cup {Absent}, error : {Absent},
     completed : ByteCounts, total : ByteCounts]
    \cup [kind : {"object"}, status : Statuses \cup {Absent}, error : {Absent},
          completed : ByteCounts]

\* every stream of one to MaxEvents progress events
ProgressStreams == UNION {[1..n -> ProgressEvents] : n \in 1..MaxEvents}

\* the request of pull_model, create_model or push_model has been answered
\* and the read loop is about to take the first event
ProgressInit ==
    /\ RenameIdle
    /\ op \in Ops
    /\ stream \in ProgressStreams
    /\ pc = "reading"
    /\ completed = FALSE
    /\ result = FALSE
    /\ label = <<"Starting...">>
    /\ lines = <<>>
    /\ exit = "none"
    /\ interrupted = FALSE
    /\ SplitterIdle
    /\ ChatIdle
    /\ SessionIdle

ProgressNext ==
    \/ ReadLine
    \/ StreamEnds
    \/ TransferReturns

ProgressSpec == ProgressInit /\ [][ProgressNext]_vars

(***************************************************************************)
(* The chat turn: CLI._send_message over OllamaClient.chat_stream.         *)
(*                                                                         *)
(* chat_stream is a generator: it runs when the for loop of _send_message  *)
(* asks for the next chunk.  ReadChatLine is the generator taking one line *)
(* and working out what it yields for it; ConsumeChunk is one pass of the  *)
(* loop body of _send_message on one yielded chunk.                        *)
(***************************************************************************)
\* '\n[ERROR]', the prefix tested at line 1442
ErrorPrefix == <<"\n", "[", "E", "R", "R", "O", "R", "]">>

\* '[DEBUG', the prefix tested at line 1438
DebugPrefix == <<"[", "D", "E", "B", "U", "G">>

\* f"\n[ERROR]: {data['error']}"
ErrorChunk(e) == ErrorPrefix \o <<":", " ">> \o e

\* f"\nError: {e}"
ExceptionChunk(e) == <<"\n", "E", "r", "r", "o", "r", ":", " ">> \o e

\* f"[DEBUG {k}]: {json.dumps(v, ensure_ascii=False)}"
DebugChunk(k, v) == DebugPrefix \o <<" ">> \o k \o <<"]", ":", " ">> \o v

\* the text of the exceptions of the model
NetworkErrorText == <<"Network error">>
AttributeErrorText == <<"no attribute">>

\* the text of the "error" field of an error event
RemoteErrorText == <<"x">>

\* the name and value of the extra field of a verbose event
ExtraKey == <<"k">>
ExtraValue == <<"5">>

\* data["message"]["content"] of the events of the model
ChatFragments ==
    {<<>>, <<"a">>, OpenTag \o <<"b">>, <<"c">> \o CloseTag \o <<"d">>,
     DebugPrefix \o <<"g">>, ErrorPrefix \o <<"e">>}

ChatMalformedLines == {[kind |-> k] : k \in {"empty", "blank", "notjson", "nonobject"}}

\* a JSON object: content is <<c>> when data["message"]["content"] is c and
\* <<>> when the object holds no message content, done is
\* data.get("done"), error is whether "error" is a key, extra is whether the
\* object holds another non-empty field
ChatObjectLines ==
    [kind : {"object"}, content : {<<>>} \cup {<<c>> : c \in ChatFragments}, done : BOOLEAN,
     error : BOOLEAN, extra : BOOLEAN]

ChatLines == ChatMalformedLines \cup ChatObjectLines

\* what the generator does with a line: the chunks it yields, for each of
\* them the statement that yields it ("error" line 285, "model" line 289,
\* "debug" line 294, "exception" line 299), and how it goes on
Yield(chunks, origins, act) == [chunks |-> chunks, origins |-> origins, act |-> act]

\* "model" for the content an object holds
ModelOrigin(content) == [k \in 1..Len(content) |-> "model"]

\* chat_object going on to the next line after an event with a truthy done
chat_object_done_goes_on(data, vb) ==
    IF data.error
    THEN Yield(<<ErrorChunk(RemoteErrorText)>>, <<"error">>, "break")
    ELSE Yield(data.content
               \o (IF vb /\ data.extra THEN <<DebugChunk(ExtraKey, ExtraValue)>> ELSE <<>>),
               ModelOrigin(data.content)
               \o (IF vb /\ data.extra THEN <<"debug">> ELSE <<>>),
               "continue")

\* chat_object yielding the extra field whatever verbose is
chat_object_always_debug(data, vb) ==
    IF data.error
    THEN Yield(<<ErrorChunk(RemoteErrorText)>>, <<"error">>, "break")
    ELSE Yield(data.content
               \o (IF data.extra THEN <<DebugChunk(ExtraKey, ExtraValue)>> ELSE <<>>),
               ModelOrigin(data.content)
               \o (IF data.extra THEN <<"debug">> ELSE <<>>),
               IF data.done THEN "break" ELSE "continue")

\* chat_stream, lines 284-297, on a decoded object
chat_object(data, vb) ==
    IF data.error
    THEN Yield(<<ErrorChunk(RemoteErrorText)>>, <<"error">>, "break")
    ELSE Yield(data.content
               \o (IF vb /\ data.extra THEN <<DebugChunk(ExtraKey, ExtraValue)>> ELSE <<>>),
               ModelOrigin(data.content)
               \o (IF vb /\ data.extra THEN <<"debug">> ELSE <<>>),
               IF data.done THEN "break" ELSE "continue")

\* chat_stream, lines 276-299, on one line: a line that is no object raises
\* in the tests on data, and the except clause of line 298 yields the text
\* of the exception and ends the generator
chat_line(line, vb) ==
    IF line.kind = "empty" THEN Yield(<<>>, <<>>, "continue")
    ELSE IF line.kind \in {"blank", "notjson"} THEN Yield(<<>>, <<>>, "continue")
    ELSE IF line.kind = "nonobject"
         THEN Yield(<<ExceptionChunk(AttributeErrorText)>>, <<"exception">>, "except")
    ELSE chat_object(line, vb)

\* s.replace(old, ""): every occurrence of old, left to right, is removed
RECURSIVE RemoveAll(_, _)
RemoveAll(s, old) ==
    IF old = <<>> THEN s
    ELSE LET p == Find(s, old, 0)
         IN  IF p = -1 THEN s
             ELSE Slice(s, 0, p) \o RemoveAll(Slice(s, p + Len(old), Len(s)), old)

\* lines 1450-1455: the splitter on the chunk, or the chunk as it is
SplitChunk(chunk) ==
    IF thinking_mode
    THEN process_chunk(thinking, chunk)
    ELSE [self |-> thinking, new_thinking |-> <<>>, new_visible |-> chunk,
          started |-> FALSE, finished |-> FALSE]

\* lines 1446-1471: the locals after the loop body has handled a chunk that
\* is neither a diagnostic nor an error
LocalsAfter(r) ==
    LET is_thinking == local.is_thinking_model \/ (thinking_mode /\ r.started)
        shown == is_thinking /\ thinking_mode
    IN  [thinking_displayed |-> local.thinking_displayed \/ (shown /\ r.started),
         thinking_done_displayed |-> local.thinking_done_displayed \/ (shown /\ r.finished),
         is_thinking_model |-> is_thinking,
         collected_response |-> local.collected_response \o r.new_visible,
         first_chunk |-> FALSE]

\* lines 1473-1479: collected_response after the fix-up that follows the loop
FinalResponse(loc, tp) ==
    IF loc.is_thinking_model /\ thinking_mode
    THEN LET final_response == get_display_content(tp)
         IN  IF final_response # <<>> /\ final_response # loc.collected_response
                /\ RemoveAll(final_response, loc.collected_response) # <<>>
             THEN final_response
             ELSE loc.collected_response
    ELSE loc.collected_response

\* HistoryAfter with the append of line 1483 made twice
HistoryAfterTwice(collected) ==
    IF collected # <<>>
    THEN history \o <<ChatMsg("assistant", collected, Clock),
                      ChatMsg("assistant", collected, Clock)>>
    ELSE history

\* HistoryAfter with the append of line 1483 made whatever collected_response
\* holds
HistoryAfterAlways(collected) ==
    Append(history, ChatMsg("assistant", collected, Clock))

\* HistoryAfter with the assistant's message put in the place of the last
\* message
HistoryAfterOverwrites(collected) ==
    IF collected # <<>>
    THEN [history EXCEPT ![Len(history)] = ChatMsg("assistant", collected, Clock)]
    ELSE history

\* lines 1482-1483: the history after the loop
HistoryAfter(collected) ==
    IF collected # <<>>
    THEN Append(history, ChatMsg("assistant", collected, Clock))
    ELSE history

\* lines 1462-1463: the reasoning delta the loop body prints, dimmed, for
\* the tuple r that process_chunk returned, with the locals loc it leaves
ThinkingPrinted(r, loc) ==
    IF loc.is_thinking_model /\ thinking_mode
       /\ r.self.thinking_active /\ r.new_thinking # <<>>
    THEN r.new_thinking
    ELSE <<>>

\* the record of the turn after the loop body has handled the tuple r
TurnAfter(r, loc) ==
    [turn EXCEPT !.reasoning = @ \o r.new_thinking,
                 !.shown = @ \o ThinkingPrinted(r, loc),
                 !.deltas = @ \o r.new_visible]

\* lines 1473-1492: what follows the loop, however it was left, and the
\* finally clause; how is "normal", "cancel" or "error", tn the record of
\* the turn.  The locals and the generator end with the call.
AfterLoop(loc, tp, tn, how) ==
    /\ history' = HistoryAfter(FinalResponse(loc, tp))
    /\ local' = NewLocals
    /\ nread' = 0
    /\ streaming' = FALSE
    /\ loading' = FALSE
    /\ thinking' = reset(tp)
    /\ cpc' = "idle"
    /\ gen' = "finished"
    /\ pending' = <<>>
    /\ turn' = [tn EXCEPT !.exit = how, !.display = get_display_content(tp),
                          !.origin = <<>>]

\* AfterException without the finally clause of lines 1489-1492
AfterExceptionNoFinally(tp, tn) ==
    /\ history' = history
    /\ local' = NewLocals
    /\ nread' = 0
    /\ UNCHANGED <<streaming, loading, thinking>>
    /\ cpc' = "idle"
    /\ gen' = "finished"
    /\ pending' = <<>>
    /\ turn' = [tn EXCEPT !.exit = "exception", !.display = get_display_content(tp),
                          !.origin = <<>>]

\* lines 1487-1492: an exception in the loop body leaves the try block for
\* the except clause, which prints it, and the finally clause
AfterException(tp, tn) ==
    /\ history' = history
    /\ local' = NewLocals
    /\ nread' = 0
    /\ streaming' = FALSE
    /\ loading' = FALSE
    /\ thinking' = reset(tp)
    /\ cpc' = "idle"
    /\ gen' = "finished"
    /\ pending' = <<>>
    /\ turn' = [tn EXCEPT !.exit = "exception", !.display = get_display_content(tp),
                          !.origin = <<>>]

\* the event a line is, for done_event: <<>> when the line is no event with
\* a truthy done that chat_stream gets as far as line 296 with
DoneEvent(line) ==
    IF line.kind = "object" /\ ~line.error /\ line.done THEN <<line.content>> ELSE <<>>

\* the record of the turn after chat_stream has read line and yielded y
TurnRead(line, y) ==
    [turn EXCEPT !.error_event = @ \/ (line.kind = "object" /\ line.error),
                 !.done_event = IF @ = <<>> THEN DoneEvent(line) ELSE @,
                 !.origin = y.origins]

\* the record of the turn tn after the loop body has taken the first chunk
\* of pending in the branch named
TurnHandled(tn, branch) ==
    [tn EXCEPT !.handled = <<Head(turn.origin), branch>>, !.origin = Tail(turn.origin)]

UserMessages == {<<"u">>}

Models == {"m"}

ChatInit ==
    /\ RenameIdle
    /\ TransferIdle
    /\ SplitterIdle
    /\ ChatIdle
    /\ SessionIdle

\* cmd_run with a model that is there, and no prompt
cmd_run ==
    /\ cpc = "idle"
    /\ current_model = None
    /\ \E m \in Models : current_model' = m
    /\ \E vb \in BOOLEAN : verbose' = vb
    /\ UNCHANGED <<history, streaming, loading, thinking_mode, cpc, local, gen, pending,
                   nread, turn, splitterVars, transferVars>>
    /\ UNCHANGED <<sessionVars, renameVars>>

\* /set think <true|false>
set_think ==
    /\ cpc = "idle"
    /\ current_model # None
    /\ \E v \in BOOLEAN : thinking_mode' = v
    /\ UNCHANGED <<history, streaming, loading, current_model, verbose, cpc, local, gen,
                   pending, nread, turn, splitterVars, transferVars>>
    /\ UNCHANGED <<sessionVars, renameVars>>

\* SendMessage with the list of line 1416 built before the append of line
\* 1414
SendMessageListFirst ==
    /\ cpc = "idle"
    /\ current_model # None
    /\ Len(history) < MaxHistory
    /\ \E message \in UserMessages :
          history' = Append(history, ChatMsg("user", message, Clock))
    /\ turn' = [NewTurn(Len(history) + 1) EXCEPT !.messages = Messages(history),
                                                  !.think = thinking_mode,
                                                  !.verbose = verbose]
    /\ streaming' = TRUE
    /\ loading' = TRUE
    /\ thinking' = NewThinkingProcessor
    /\ local' = NewLocals
    /\ cpc' = "loop"
    /\ gen' = "reading"
    /\ pending' = <<>>
    /\ nread' = 0
    /\ UNCHANGED <<current_model, verbose, thinking_mode, text, fed, ret, visible_out,
                   thinking_out, transferVars>>
    /\ UNCHANGED <<sessionVars, renameVars>>

\* _send_message with no model loaded, lines 1410-1412: it prints and returns
SendMessageNoModel ==
    /\ cpc = "idle"
    /\ current_model = None
    /\ UNCHANGED <<splitterVars, transferVars, chatVars, sessionVars, renameVars>>

\* _send_message up to the for loop, lines 1409-1432
SendMessage ==
    /\ cpc = "idle"
    /\ current_model # None
    /\ Len(history) < MaxHistory
    /\ \E message \in UserMessages :
          history' = Append(history, ChatMsg("user", message, Clock))
    /\ turn' = [NewTurn(Len(history) + 1) EXCEPT !.messages = Messages(history'),
                                                  !.think = thinking_mode,
                                                  !.verbose = verbose]
    /\ streaming' = TRUE
    /\ loading' = TRUE
    /\ thinking' = NewThinkingProcessor
    /\ local' = NewLocals
    /\ cpc' = "loop"
    /\ gen' = "reading"
    /\ pending' = <<>>
    /\ nread' = 0
    /\ UNCHANGED <<current_model, verbose, thinking_mode, text, fed, ret, visible_out,
                   thinking_out, transferVars>>
    /\ UNCHANGED <<sessionVars, renameVars>>

\* the generator takes the next line of the stream; when it yields nothing
\* for it and ends (a done event without content), the for loop ends too
ReadChatLine ==
    /\ cpc = "loop"
    /\ gen = "reading"
    /\ pending = <<>>
    /\ nread < MaxChatLines
    /\ UNCHANGED <<current_model, verbose, thinking_mode, text, fed, ret,
                   visible_out, thinking_out, transferVars>>
    /\ \E line \in ChatLines :
          LET y == chat_line(line, verbose)
          IN  IF y.chunks = <<>> /\ y.act # "continue"
              THEN AfterLoop(local, thinking, TurnRead(line, y), "normal")
              ELSE /\ nread' = nread + 1
                   /\ pending' = y.chunks
                   /\ gen' = IF y.act = "continue" THEN "reading" ELSE "finished"
                   /\ turn' = TurnRead(line, y)
                   /\ UNCHANGED <<history, local, streaming, loading, thinking, cpc>>
    /\ UNCHANGED <<sessionVars, renameVars>>

\* the stream has no more lines: the generator returns and the for loop ends
ChatStreamEnds ==
    /\ cpc = "loop"
    /\ gen = "reading"
    /\ pending = <<>>
    /\ AfterLoop(local, thinking, turn, "normal")
    /\ UNCHANGED <<current_model, verbose, thinking_mode, text, fed, ret,
                   visible_out, thinking_out, transferVars>>
    /\ UNCHANGED <<sessionVars, renameVars>>

\* self._request or r.iter_lines() raises (network error, timeout): the
\* except clause of line 298 yields the text of the exception
ChatTransportFails ==
    /\ cpc = "loop"
    /\ gen = "reading"
    /\ pending = <<>>
    /\ pending' = <<ExceptionChunk(NetworkErrorText)>>
    /\ gen' = "finished"
    /\ turn' = [turn EXCEPT !.transport_failed = TRUE, !.origin = <<"exception">>]
    /\ UNCHANGED <<history, streaming, loading, current_model, verbose, thinking_mode,
                   cpc, local, nread, splitterVars, transferVars>>
    /\ UNCHANGED <<sessionVars, renameVars>>

\* one pass of the loop body of _send_message, lines 1435-1471, on the next
\* chunk; when the generator has nothing more to yield the for loop ends
ConsumeChunk ==
    /\ cpc = "loop"
    /\ pending # <<>>
    /\ LET chunk == Head(pending)
           last == Tail(pending) = <<>> /\ gen = "finished"
       IN  IF ~streaming
           THEN AfterLoop(local, thinking, turn, "cancel")
           ELSE IF verbose /\ StartsWith(chunk, DebugPrefix)
           THEN IF last
                THEN AfterLoop(local, thinking, TurnHandled(turn, "diagnostic"), "normal")
                ELSE /\ pending' = Tail(pending)
                     /\ turn' = TurnHandled(turn, "diagnostic")
                     /\ UNCHANGED <<history, local, streaming, loading, thinking, cpc, gen,
                                    nread>>
           ELSE IF StartsWith(chunk, ErrorPrefix)
           THEN AfterLoop(local, thinking, TurnHandled(turn, "error"), "error")
           ELSE LET r == SplitChunk(chunk)
                    loc == LocalsAfter(r)
                IN  IF last
                    THEN AfterLoop(loc, r.self, TurnHandled(TurnAfter(r, loc), "output"),
                                   "normal")
                    ELSE /\ local' = loc
                         /\ thinking' = r.self
                         /\ loading' = FALSE
                         /\ pending' = Tail(pending)
                         /\ turn' = TurnHandled(TurnAfter(r, loc), "output")
                         /\ UNCHANGED <<history, streaming, cpc, gen, nread>>
    /\ UNCHANGED <<current_model, verbose, thinking_mode, text, fed, ret,
                   visible_out, thinking_out, transferVars>>
    /\ UNCHANGED <<sessionVars, renameVars>>

\* console.print raises in the loop body on the chunk it is given (rich
\* reads square brackets in the text as markup): lines 1487-1492
PrintRaises ==
    /\ cpc = "loop"
    /\ pending # <<>>
    /\ streaming
    /\ AfterException(thinking, turn)
    /\ UNCHANGED <<current_model, verbose, thinking_mode, text, fed, ret,
                   visible_out, thinking_out, transferVars>>
    /\ UNCHANGED <<sessionVars, renameVars>>

\* SIGINT during the chat turn: CLI._signal_handler
SignalInChat ==
    /\ cpc = "loop"
    /\ signal_handler
    /\ turn' = IF streaming /\ turn.cancelled = "no"
               THEN [turn EXCEPT !.cancelled =
                        IF local.collected_response # <<>> THEN "visible" ELSE "early"]
               ELSE turn
    /\ UNCHANGED <<history, current_model, verbose, thinking_mode, cpc, local, gen,
                   pending, nread, splitterVars, transferVars>>
    /\ UNCHANGED <<sessionVars, renameVars>>

ChatNext ==
    \/ cmd_run
    \/ set_think
    \/ SendMessageNoModel
    \/ SendMessage
    \/ ReadChatLine
    \/ ChatStreamEnds
    \/ ChatTransportFails
    \/ ConsumeChunk
    \/ PrintRaises
    \/ SignalInChat

ChatSpec == ChatInit /\ [][ChatNext]_vars

(***************************************************************************)
(* Sessions: cmd_save writes history to a JSON file and cmd_load reads it  *)
(* back.  A string of the file is the text json.dump writes for it, quotes *)
(* and escapes included; the file itself is the object that text denotes,  *)
(* with a record holding the keys it has.  system_prompt, temperature and  *)
(* theme_color are written and read back too and touch nothing else.       *)
(***************************************************************************)
CLI_VERSION == "1.1.0"

\* the version of a session file written by another release
OtherVersion == "1.0.0"

\* a file json.load raises on, or whose JSON is no object
Garbage == [kind |-> "garbage"]

\* json.dump of the characters of a str, ensure_ascii=False
RECURSIVE JsonEscape(_)
JsonEscape(str) ==
    IF str = <<>> THEN <<>>
    ELSE LET c == Head(str)
         IN  (IF c = "\"" THEN <<"\\", "\"">>
              ELSE IF c = "\\" THEN <<"\\", "\\">>
              ELSE IF c = "\n" THEN <<"\\", "n">>
              ELSE <<c>>) \o JsonEscape(Tail(str))

\* json.dump of a str
JsonString(str) == <<"\"">> \o JsonEscape(str) \o <<"\"">>

\* json.load of the characters between the quotes of a string
RECURSIVE JsonUnescape(_)
JsonUnescape(e) ==
    IF e = <<>> THEN <<>>
    ELSE IF Head(e) = "\\" /\ Len(e) >= 2
    THEN <<IF e[2] = "n" THEN "\n" ELSE e[2]>> \o JsonUnescape(SubSeq(e, 3, Len(e)))
    ELSE <<Head(e)>> \o JsonUnescape(Tail(e))

\* json.load of a string
JsonParseString(t) == JsonUnescape(SubSeq(t, 2, Len(t) - 1))

\* the timestamps of the model
Stamps == {"then", Clock}

\* datetime.isoformat
isoformat(ts) == <<"T", ts>>

\* datetime.fromisoformat: ok is FALSE when it raises ValueError
fromisoformat(str) ==
    IF Len(str) = 2 /\ str[1] = "T" /\ str[2] \in Stamps
    THEN [ok |-> TRUE, ts |-> str[2]]
    ELSE [ok |-> FALSE]

\* a role is written as one unit: its text holds nothing json.dump escapes
RoleText(role) == <<role>>

\* line 1308: the record cmd_save writes for a message
SavedRecord(m) ==
    [role |-> JsonString(RoleText(m.role)), content |-> JsonString(m.content),
     timestamp |-> JsonString(isoformat(m.ts))]

\* lines 1302-1309: the object cmd_save writes
SessionData ==
    [kind |-> "session", cli_version |-> CLI_VERSION, model |-> current_model,
     history |-> [k \in 1..Len(history) |-> SavedRecord(history[k])]]

\* h has the key
Has(h, key) == key \in DOMAIN h

\* lines 1356-1357, the try: ok is FALSE when it raises (KeyError on a key
\* the record lacks, ValueError on a timestamp that does not parse)
TryRecord(h) ==
    IF ~Has(h, "timestamp") THEN [ok |-> FALSE]
    ELSE LET timestamp == fromisoformat(JsonParseString(h.timestamp))
         IN  IF ~timestamp.ok THEN [ok |-> FALSE]
             ELSE IF ~Has(h, "role") \/ ~Has(h, "content") THEN [ok |-> FALSE]
             ELSE [ok |-> TRUE,
                   msg |-> ChatMsg(JsonParseString(h.role)[1],
                                   JsonParseString(h.content), timestamp.ts)]

\* line 1359, the except: ok is FALSE when it raises KeyError in its turn
FallbackRecord(h) ==
    IF ~Has(h, "role") \/ ~Has(h, "content") THEN [ok |-> FALSE]
    ELSE [ok |-> TRUE,
          msg |-> ChatMsg(JsonParseString(h.role)[1], JsonParseString(h.content), Clock)]

\* load_record without the except clause of lines 1358-1359
load_record_no_fallback(h) == TryRecord(h)

\* lines 1355-1359: one pass of the loop over the records of the file
load_record(h) ==
    IF TryRecord(h).ok THEN TryRecord(h) ELSE FallbackRecord(h)

\* lines 1353-1359: the loop over the records; raised is whether a record
\* raised out of it, acc what self.history holds
RECURSIVE load_history(_, _)
load_history(recs, acc) ==
    IF recs = <<>> THEN [history |-> acc, raised |-> FALSE]
    ELSE LET r == load_record(Head(recs))
         IN  IF r.ok THEN load_history(Tail(recs), Append(acc, r.msg))
             ELSE [history |-> acc, raised |-> TRUE]

\* a content with the characters json.dump escapes
SpecialContent == <<"\"", "\\", "\n", "n">>

\* the records of the session files that come from elsewhere: two that are
\* whole, one without timestamp, one whose timestamp does not parse, one
\* without role and one without content
GoodRecord ==
    [role |-> JsonString(RoleText("user")), content |-> JsonString(<<"u">>),
     timestamp |-> JsonString(isoformat("then"))]

SpecialRecord ==
    [role |-> JsonString(RoleText("assistant")), content |-> JsonString(SpecialContent),
     timestamp |-> JsonString(isoformat(Clock))]

NoStampRecord ==
    [role |-> JsonString(RoleText("user")), content |-> JsonString(<<"u">>)]

BadStampRecord ==
    [role |-> JsonString(RoleText("user")), content |-> JsonString(<<"u">>),
     timestamp |-> JsonString(<<"?">>)]

NoRoleRecord ==
    [content |-> JsonString(<<"u">>), timestamp |-> JsonString(isoformat("then"))]

NoContentRecord ==
    [role |-> JsonString(RoleText("user")), timestamp |-> JsonString(isoformat("then"))]

ForeignRecords ==
    {GoodRecord, SpecialRecord, NoStampRecord, BadStampRecord, NoRoleRecord,
     NoContentRecord}

\* the session files that come from elsewhere
ForeignFiles ==
    {Garbage} \cup
    [kind : {"session"}, cli_version : {CLI_VERSION, OtherVersion},
     model : Models \cup {None},
     history : UNION {[1..n -> ForeignRecords] : n \in 0..MaxStored}]

\* two session files of this release, one saved without a model
ExampleFiles ==
    {[kind |-> "session", cli_version |-> CLI_VERSION, model |-> None,
      history |-> <<GoodRecord>>],
     [kind |-> "session", cli_version |-> CLI_VERSION, model |-> "m",
      history |-> <<GoodRecord, SpecialRecord>>]}

\* cmd_save from the command prompt (line 1579): the file is written, or
\* open raises and it is left alone, or the write raises part-way
cmd_save ==
    /\ cpc = "idle"
    /\ current_model = None
    /\ \E outcome \in {"written", "refused", "truncated"} :
          IF outcome = "written"
          THEN /\ file' = SessionData
               /\ session' = [fresh |-> TRUE, pairs |-> Messages(history),
                              loaded |-> "none"]
          ELSE IF outcome = "truncated"
          THEN /\ file' = Garbage
               /\ session' = NoSession
          ELSE UNCHANGED sessionVars
    /\ UNCHANGED <<splitterVars, transferVars, chatVars, renameVars>>

\* cmd_load from the command prompt (line 1581), lines 1318-1364
cmd_load ==
    /\ cpc = "idle"
    /\ current_model = None
    /\ file' = file
    /\ UNCHANGED renameVars
    /\ \E confirm \in BOOLEAN :
          IF file.kind = "none"
          THEN /\ session' = [session EXCEPT !.loaded = "missing"]
               /\ UNCHANGED <<history, current_model>>
          ELSE IF file.kind = "garbage"
          THEN /\ session' = [session EXCEPT !.loaded = "error"]
               /\ UNCHANGED <<history, current_model>>
          ELSE IF file.cli_version # CLI_VERSION /\ ~confirm
          THEN /\ session' = [session EXCEPT !.loaded = "declined"]
               /\ UNCHANGED <<history, current_model>>
          ELSE LET r == load_history(file.history, <<>>)
               IN  /\ current_model' = file.model
                   /\ history' = r.history
                   /\ session' = [session EXCEPT
                                     !.loaded = IF r.raised THEN "error" ELSE "ok"]
    /\ UNCHANGED <<streaming, loading, verbose, thinking_mode, cpc, local, gen, pending,
                   nread, turn, splitterVars, transferVars>>

\* cmd_clear from the command prompt (line 1573), lines 1182-1185
cmd_clear ==
    /\ cpc = "idle"
    /\ current_model = None
    /\ \E confirm \in BOOLEAN :
          history' = IF history # <<>> /\ confirm THEN <<>> ELSE history
    /\ UNCHANGED <<streaming, loading, current_model, verbose, thinking_mode, cpc, local,
                   gen, pending, nread, turn, splitterVars, transferVars, sessionVars, renameVars>>

\* /exit in chat mode, lines 578-582
exit_chat ==
    /\ cpc = "idle"
    /\ current_model # None
    /\ current_model' = None
    /\ history' = <<>>
    /\ UNCHANGED <<streaming, loading, verbose, thinking_mode, cpc, local, gen, pending,
                   nread, turn, splitterVars, transferVars, sessionVars, renameVars>>

\* /switch in chat mode, lines 519-576: selected is None when the command
\* returns before a model is selected
switch ==
    /\ cpc = "idle"
    /\ current_model # None
    /\ \E selected \in Models \cup {None} :
          current_model' = IF selected # None THEN selected ELSE current_model
    /\ UNCHANGED <<history, streaming, loading, verbose, thinking_mode, cpc, local, gen,
                   pending, nread, turn, splitterVars, transferVars, sessionVars, renameVars>>

\* cmd_unload from the command prompt (line 1567), lines 1107-1159:
\* identifier is None when the command has no argument, found whether the
\* daemon lists the model
cmd_unload ==
    /\ cpc = "idle"
    /\ current_model = None
    /\ streaming' = FALSE
    /\ loading' = FALSE
    /\ \E identifier \in Models \cup {None}, found \in BOOLEAN :
          LET model_to_unload ==
                  IF identifier # None
                  THEN (IF found THEN identifier ELSE None)
                  ELSE current_model
          IN  IF model_to_unload # None /\ current_model = model_to_unload
              THEN /\ current_model' = None
                   /\ history' = <<>>
              ELSE UNCHANGED <<history, current_model>>
    /\ UNCHANGED <<verbose, thinking_mode, cpc, local, gen, pending, nread, turn,
                   splitterVars, transferVars, sessionVars, renameVars>>

\* the session commands on their own, starting with no session file or
\* with one that comes from elsewhere
SessionInit ==
    /\ RenameIdle
    /\ TransferIdle
    /\ SplitterIdle
    /\ ChatIdle
    /\ file \in {NoFile} \cup ForeignFiles
    /\ session = NoSession

SessionNext ==
    \/ cmd_save
    \/ cmd_load
    \/ cmd_clear
    \/ exit_chat

SessionSpec == SessionInit /\ [][SessionNext]_vars

\* every command that writes self.history, with chat turns whose stream is
\* empty or fails, starting with no session file or one of the examples
HistoryInit ==
    /\ RenameIdle
    /\ TransferIdle
    /\ SplitterIdle
    /\ ChatIdle
    /\ file \in {NoFile} \cup ExampleFiles
    /\ session = NoSession

HistoryNext ==
    \/ cmd_run
    \/ SendMessage
    \/ ChatStreamEnds
    \/ ChatTransportFails
    \/ ConsumeChunk
    \/ switch
    \/ exit_chat
    \/ cmd_unload
    \/ cmd_clear
    \/ cmd_save
    \/ cmd_load

HistorySpec == HistoryInit /\ [][HistoryNext]_vars

(***************************************************************************)
(* cmd_rename: the model is copied to the new name, then the original is   *)
(* deleted.  Each request to the daemon is a step; the daemon answers it   *)
(* or the request fails, and a failed request leaves the daemon's models   *)
(* as they were.  cmd_rename is taken as the method it is, whatever        *)
(* self.current_model holds: CLI.run calls it from the command prompt,     *)
(* where no model is active.                                               *)
(***************************************************************************)
\* the names a model can have
ModelNames == {"m", "n", "o"}

\* the models the daemon holds at the start
StartNames == {"m", "n"}

\* the order in which /api/tags lists the models
ListOrder == <<"m", "n", "o">>

\* list_models: the names of the models held, in the order of the listing,
\* and [] when the request fails
list_models(held, up) ==
    IF up THEN SelectSeq(ListOrder, LAMBDA x : x \in held) ELSE <<>>

\* args of cmd_rename: fewer than two, or old_arg and new_name; old_arg is a
\* number of the listing or a name
RenameArgs ==
    {[given |-> FALSE]}
    \cup [given : {TRUE}, kind : {"number"}, number : 0..Len(ListOrder),
          new_name : ModelNames]
    \cup [given : {TRUE}, kind : {"name"}, name : ModelNames, new_name : ModelNames]

\* lines 755-768: old_model for old_arg, <<>> when the number is out of
\* range or the name is not in the listing
ResolveOld(args, available) ==
    IF args.kind = "number"
    THEN IF 1 <= args.number /\ args.number <= Len(available)
         THEN <<available[args.number]>>
         ELSE <<>>
    ELSE IF \E k \in 1..Len(available) : available[k] = args.name
         THEN <<args.name>>
         ELSE <<>>

\* a request of cmd_rename and whether copy_model / delete_model returned
\* True for it
Request(call, ok) == [call |-> call, ok |-> ok]

\* cmd_rename returns before line 770 with the outcome named
RenameRefused(outcome) ==
    /\ rename' = [NoRename EXCEPT !.outcome = outcome, !.active = current_model,
                                  !.had = store]
    /\ UNCHANGED <<blocking_operation, store>>

\* cmd_rename, lines 739-772: up to the copy request
cmd_rename ==
    /\ cpc = "idle"
    /\ pc = "idle"
    /\ rename.pc = "idle"
    /\ \E args \in RenameArgs, up \in BOOLEAN :
          LET available == list_models(store, up)
          IN  IF ~args.given THEN RenameRefused("usage")
              ELSE IF available = <<>> THEN RenameRefused("nomodels")
              ELSE IF ResolveOld(args, available) = <<>> THEN RenameRefused("notfound")
              ELSE /\ blocking_operation' = TRUE
                   /\ rename' = [NoRename EXCEPT !.pc = "copy",
                                     !.old_model = ResolveOld(args, available)[1],
                                     !.new_name = args.new_name,
                                     !.active = current_model,
                                     !.had = store]
                   /\ store' = store
    /\ UNCHANGED <<splitterVars, transferVars, chatVars, sessionVars>>

\* lines 793-794 after a return or an exception: the finally clause
RenameReturns(requests, outcome) ==
    /\ blocking_operation' = FALSE
    /\ rename' = [rename EXCEPT !.pc = "idle", !.requests = requests,
                                !.outcome = outcome]

\* rename_copy going on to the delete whatever copy_model returned
rename_copy_goes_on ==
    /\ rename.pc = "copy"
    /\ \E ok \in BOOLEAN :
          /\ store' = IF ok THEN store \cup {rename.new_name} ELSE store
          /\ rename' = [rename EXCEPT !.pc = "delete",
                                      !.requests = Append(@, Request("copy", ok))]
          /\ UNCHANGED blocking_operation
    /\ UNCHANGED <<splitterVars, transferVars, chatVars, sessionVars>>

\* lines 774-778 with copy_model, lines 140-146
rename_copy ==
    /\ rename.pc = "copy"
    /\ \E ok \in BOOLEAN :
          IF ok
          THEN /\ store' = store \cup {rename.new_name}
               /\ rename' = [rename EXCEPT !.pc = "delete",
                                           !.requests = Append(@, Request("copy", TRUE))]
               /\ UNCHANGED blocking_operation
          ELSE /\ store' = store
               /\ RenameReturns(Append(rename.requests, Request("copy", FALSE)),
                                "copyfailed")
    /\ UNCHANGED <<splitterVars, transferVars, chatVars, sessionVars>>

\* lines 780-785 with delete_model, lines 132-138
rename_delete ==
    /\ rename.pc = "delete"
    /\ \E ok \in BOOLEAN :
          /\ store' = IF ok THEN store \ {rename.old_model} ELSE store
          /\ rename' = [rename EXCEPT !.pc = "switch",
                                      !.requests = Append(@, Request("delete", ok))]
    /\ UNCHANGED blocking_operation
    /\ UNCHANGED <<splitterVars, transferVars, chatVars, sessionVars>>

\* lines 787-794: the active model follows the rename, and cmd_rename returns
rename_switch ==
    /\ rename.pc = "switch"
    /\ current_model' = IF current_model = rename.old_model
                        THEN rename.new_name
                        ELSE current_model
    /\ RenameReturns(rename.requests,
                     IF rename.requests[2].ok THEN "renamed" ELSE "kept")
    /\ store' = store
    /\ UNCHANGED <<history, streaming, loading, verbose, thinking_mode, cpc, local, gen,
                   pending, nread, turn>>
    /\ UNCHANGED <<splitterVars, transferVars, sessionVars>>

\* console.print raises inside the try block (a name that rich reads as
\* markup): lines 791-794
RenameRaises ==
    /\ rename.pc \in {"copy", "delete", "switch"}
    /\ RenameReturns(rename.requests, "exception")
    /\ store' = store
    /\ UNCHANGED <<splitterVars, transferVars, chatVars, sessionVars>>

\* the command prompt with the daemon holding some models
RenameInit ==
    /\ TransferIdle
    /\ SplitterIdle
    /\ SessionIdle
    /\ history = <<>>
    /\ streaming = FALSE
    /\ loading = FALSE
    /\ current_model \in {None} \cup StartNames
    /\ verbose = FALSE
    /\ thinking_mode = TRUE
    /\ cpc = "idle"
    /\ local = NewLocals
    /\ gen = "finished"
    /\ pending = <<>>
    /\ nread = 0
    /\ turn = NewTurn(0)
    /\ blocking_operation = FALSE
    /\ store \in SUBSET StartNames
    /\ rename = NoRename

RenameNext ==
    \/ cmd_rename
    \/ rename_copy
    \/ rename_delete
    \/ rename_switch
    \/ RenameRaises

RenameSpec == RenameInit /\ [][RenameNext]_vars

(***************************************************************************)
(* Claims about the chat turn (ChatSpec).                                  *)
(***************************************************************************)
\* _send_message has returned from a turn that reached the for loop
TurnOver == cpc = "idle" /\ turn.exit # "none"

\* history ends with the user's message of the turn: no assistant message
\* was appended for it
NoAssistantAppended == Len(history) = turn.base

\* C1: when the interrupt handler clears the streaming flag after a visible
\* fragment of the turn has been processed and before the stream is done,
\* no assistant message has been appended when _send_message returns.
C1_CancelDiscardsPartial ==
    (TurnOver /\ turn.cancelled = "visible") => NoAssistantAppended

\* C2: when an event carrying an error field arrives in the chat stream,
\* after zero or more message fragments, no assistant message is appended.
C2_ErrorEventAbandonsTurn ==
    (TurnOver /\ turn.error_event) => NoAssistantAppended

\* C3: when the request fails on opening or while the stream is read, no
\* assistant message is appended for the turn and the error text is not the
\* content of a history message.
C3_TransportFailureLeavesHistory ==
    (TurnOver /\ turn.transport_failed) =>
        /\ NoAssistantAppended
        /\ \A k \in 1..Len(history) :
              ~Contains(history[k].content, ExceptionChunk(NetworkErrorText))

\* _send_message is in its for loop
InTurn == cpc = "loop"

\* C11: from the moment the request of a chat turn can be issued until the
\* turn has ended, however it ends, the user's message is the last element
\* of the list sent to the daemon and history still begins with that list.
C11_UserMessageFirst ==
    (InTurn \/ TurnOver) =>
        /\ Len(turn.messages) = turn.base
        /\ turn.messages[turn.base].role = "user"
        /\ turn.messages[turn.base].content \in UserMessages
        /\ Len(history) >= turn.base
        /\ Messages(SubSeq(history, 1, turn.base)) = turn.messages

\* a second turn was cancelled after a visible fragment, and an assistant
\* message follows the user's message
C11_Witness ==
    /\ TurnOver
    /\ turn.exit = "cancel"
    /\ turn.base = 2
    /\ Len(history) = 3

\* the turn ended by a done event or the end of the stream, with no error
\* event, no transport failure and no interrupt
NormalCompletion ==
    /\ TurnOver
    /\ turn.exit = "normal"
    /\ ~turn.error_event
    /\ ~turn.transport_failed
    /\ turn.cancelled = "no"

\* C12: after a normal completion history is the list that was sent followed
\* by one assistant message holding the concatenation of the visible deltas
\* of the turn when that is non-empty, and the list that was sent alone when
\* it is empty; with thinking mode on the concatenation equals the splitter's
\* accumulated visible text.
C12_NormalCompletion ==
    NormalCompletion =>
        /\ Messages(history) = turn.messages \o
                        (IF turn.deltas # <<>>
                         THEN <<[role |-> "assistant", content |-> turn.deltas]>>
                         ELSE <<>>)
        /\ turn.think => turn.deltas = turn.display

\* a turn with thinking mode on whose stream held reasoning text and visible
\* text has completed
C12_Witness ==
    /\ NormalCompletion
    /\ turn.think
    /\ turn.reasoning # <<>>
    /\ turn.deltas # <<>>
    /\ history[Len(history)] = ChatMsg("assistant", turn.deltas, Clock)

\* C19: in a chat turn with thinking mode on, what the thinking display has
\* received is the concatenation of the reasoning deltas that process_chunk
\* has returned in the turn.
C19_ReasoningDisplayed ==
    ((InTurn \/ TurnOver) /\ turn.think) => turn.shown = turn.reasoning

\* C22: in chat_stream, when the first event with a truthy done is read, the
\* message fragment it carries is still yielded to the loop as model text,
\* and from then on the generator is finished: no further line is read, so
\* no later event is decoded, delivered or displayed.
C22_DoneIsTerminal ==
    [][/\ (InTurn /\ turn.done_event = <<>> /\ turn'.done_event # <<>>
              /\ turn'.done_event[1] # <<>>) =>
             /\ cpc' = "loop"
             /\ pending' # <<>>
             /\ Head(pending') = turn'.done_event[1][1]
             /\ Head(turn'.origin) = "model"
       /\ (InTurn /\ turn.done_event # <<>>) =>
             /\ gen = "finished"
             /\ cpc' = "loop" => (nread' = nread /\ turn'.done_event = turn.done_event)
      ]_vars

\* a turn has completed whose second event was the done event, and the
\* fragments of both events are in the collected response
C22_Witness ==
    /\ NormalCompletion
    /\ turn.done_event = << << <<"a">> >> >>
    /\ turn.deltas = <<"a", "a">>
    /\ history[Len(history)] = ChatMsg("assistant", <<"a", "a">>, Clock)

\* the texts a chunk of the turn can go into: the deltas and the texts of
\* the splitter, the collected response, and the messages of history
AnswerTexts ==
    {turn.deltas, turn.reasoning, turn.shown, local.collected_response,
     thinking.visible_content, thinking.thinking_content, thinking.complete_thinking}
    \cup {history[k].content : k \in 1..Len(history)}

\* C23: with verbose on, the chunk chat_stream makes of an extra field is
\* handled by the loop as a diagnostic line and is in none of the texts of
\* the splitter, the collected response or history; with verbose off
\* chat_stream makes no such chunk and the loop prints no diagnostic line.
C23_DiagnosticsApart ==
    /\ (turn.handled # <<>> /\ turn.handled[1] = "debug") => turn.handled[2] = "diagnostic"
    /\ \A t \in AnswerTexts : ~Contains(t, DebugChunk(ExtraKey, ExtraValue))
    /\ ~turn.verbose =>
          /\ \A k \in 1..Len(turn.origin) : turn.origin[k] # "debug"
          /\ turn.handled # <<>> => turn.handled[2] # "diagnostic"

\* with verbose on, the turn has completed on an event with a fragment and
\* an extra field: the extra field went out as a diagnostic line and the
\* fragment is the answer
C23_Witness ==
    /\ NormalCompletion
    /\ turn.verbose
    /\ turn.handled = <<"debug", "diagnostic">>
    /\ turn.deltas = <<"a">>
    /\ history[Len(history)] = ChatMsg("assistant", <<"a">>, Clock)

\* C24: _send_message starts every turn with a ThinkingProcessor in its
\* initial state, and whenever no turn is in progress the processor of the
\* last turn has every field cleared, however the turn ended.
C24_SplitterFreshPerTurn ==
    /\ [](cpc = "idle" => thinking = NewThinkingProcessor)
    /\ [][SendMessage => thinking' = NewThinkingProcessor]_vars

\* a turn has ended by an exception while its reasoning block was open, and
\* the processor is cleared
C24_Witness ==
    /\ TurnOver
    /\ turn.exit = "exception"
    /\ turn.think
    /\ turn.reasoning = <<"b">>
    /\ turn.deltas = <<>>
    /\ thinking = NewThinkingProcessor

\* C25: streaming and loading are true only while a chat turn is in
\* progress, no transfer reads its stream during a chat turn, and when
\* _send_message has returned, however it returned, both flags are false,
\* the generator is finished and the prompt is back.
C25_OneStreamAndIdle ==
    /\ (streaming \/ loading) => cpc = "loop"
    /\ cpc = "loop" => pc = "idle"
    /\ gen = "reading" => cpc = "loop"
    /\ cpc = "idle" => (~streaming /\ ~loading /\ gen = "finished" /\ pending = <<>>)

\* a turn was cancelled after visible text, and a second turn has ended by
\* an exception: the flags are false
C25_Witness ==
    /\ TurnOver
    /\ turn.exit = "exception"
    /\ turn.base = 2
    /\ ~streaming
    /\ ~loading

\* C26: the loop body handles every chunk made of a message fragment as
\* model output, and every chunk made of an error event or of a transport
\* failure as an error.
C26_ModelTextNotControl ==
    turn.handled # <<>> =>
        /\ turn.handled[1] = "model" => turn.handled[2] = "output"
        /\ turn.handled[1] \in {"error", "exception"} => turn.handled[2] = "error"

\* the roles of history alternate, the first being user
RolesAlternate(h) ==
    \A k \in 1..Len(h) : h[k].role = IF k % 2 = 1 THEN "user" ELSE "assistant"

\* C29 as stated: the roles of history alternate user, assistant, user, ...
C29_RolesAlternate == RolesAlternate(history)

\* C29: every assistant message of history stands directly after a user
\* message, so history never holds two consecutive assistant messages; the
\* list sent to the daemon in a turn ends with a user message.  Two
\* consecutive user messages stand in history after a turn that appended
\* no assistant message.
C29_AssistantFollowsUser ==
    /\ \A k \in 1..Len(history) :
          history[k].role = "assistant" => (k > 1 /\ history[k - 1].role = "user")
    /\ (InTurn \/ TurnOver) =>
          (turn.messages # <<>> /\ turn.messages[Len(turn.messages)].role = "user")

\* a turn that appended nothing was followed by a turn that completed
C29_Witness ==
    /\ NormalCompletion
    /\ Len(history) = 3
    /\ history[1].role = "user"
    /\ history[2].role = "user"
    /\ history[3].role = "assistant"

(***************************************************************************)
(* Claims about cmd_rename (RenameSpec).                                   *)
(***************************************************************************)
\* cmd_rename has been called
RenameCalled == rename.pc # "idle" \/ rename.outcome # "none"

HasRoleAndContent(h) == Has(h, "role") /\ Has(h, "content")

\* the timestamp the record denotes, Clock when it has none that parses
StampOf(h) ==
    IF Has(h, "timestamp") /\ fromisoformat(JsonParseString(h.timestamp)).ok
    THEN fromisoformat(JsonParseString(h.timestamp)).ts
    ELSE Clock

\* the file is a session of this release whose records all have role and
\* content
LoadableFile ==
    /\ file.kind = "session"
    /\ file.cli_version = CLI_VERSION
    /\ \A k \in 1..Len(file.history) : HasRoleAndContent(file.history[k])

\* C13: a cmd_load of the file that cmd_save wrote leaves a history with
\* the (role, content) pairs history had at the cmd_save, in the same order;
\* and a cmd_load of a session of this release whose records all have role
\* and content loads every record, one whose timestamp is missing or does
\* not parse included, with the current time in place of the timestamp.
C13_SessionRoundTrip ==
    [][cmd_load =>
         /\ session.fresh => Messages(history') = session.pairs
         /\ LoadableFile =>
               /\ session'.loaded = "ok"
               /\ Len(history') = Len(file.history)
               /\ \A k \in 1..Len(file.history) :
                     /\ <<history'[k].role>> = JsonParseString(file.history[k].role)
                     /\ history'[k].content = JsonParseString(file.history[k].content)
                     /\ history'[k].ts = StampOf(file.history[k])]_vars

\* a history of two messages, one of them with quotes, a backslash and a
\* newline, was saved and then loaded from the file
C13_Witness ==
    /\ session.fresh
    /\ session.loaded = "ok"
    /\ Len(session.pairs) = 2
    /\ \E k \in 1..2 : session.pairs[k].content = SpecialContent
    /\ Messages(history) = session.pairs

\* the messages of the records of recs that have role and content
RECURSIVE WellFormedMessages(_)
WellFormedMessages(recs) ==
    IF recs = <<>> THEN <<>>
    ELSE IF HasRoleAndContent(Head(recs))
    THEN <<[role |-> JsonParseString(Head(recs).role)[1],
            content |-> JsonParseString(Head(recs).content)]>>
         \o WellFormedMessages(Tail(recs))
    ELSE WellFormedMessages(Tail(recs))

\* C14: a cmd_load of a session of this release loads every record that has
\* role and content, those that follow a record lacking one of them
\* included.
C14_LoadDegradesPerRecord ==
    [][(cmd_load /\ file.kind = "session" /\ file.cli_version = CLI_VERSION) =>
         Messages(history') = WellFormedMessages(file.history)]_vars

\* a is a prefix of b
IsPrefix(a, b) == Len(a) <= Len(b) /\ SubSeq(b, 1, Len(a)) = a

\* C20 as stated: every step leaves the earlier history a prefix of the
\* later one.
C20_AppendOnly == [][IsPrefix(history, history')]_vars

\* C20 (amended): every step appends to history or leaves it alone, unless
\* it is /exit, cmd_unload or cmd_clear, which leave it empty or alone, or
\* cmd_load, which leaves in it the records read from the file.
C20_AppendOrReplace ==
    [][\/ IsPrefix(history, history')
       \/ (exit_chat \/ cmd_unload \/ cmd_clear) /\ history' = <<>>
       \/ cmd_load /\ history' = load_history(file.history, <<>>).history]_vars

\* a chat turn has appended to a loaded history and /exit has emptied the
\* history since
C20_Witness ==
    /\ TurnOver
    /\ session.loaded = "ok"
    /\ turn.base = 2
    /\ history = <<>>
    /\ current_model = None

(***************************************************************************)
(* Claims about the splitter (SplitterSpec).                               *)
(***************************************************************************)
\* s holds neither "<think>" nor "</think>"
MarkerFree(s) == ~Contains(s, OpenTag) /\ ~Contains(s, CloseTag)

\* the text is A<think>B</think>C with the open marker at index i, the close
\* marker at index j, and A, B, C free of markers
IsABC(i, j) ==
    /\ i + Len(OpenTag) <= j
    /\ j + Len(CloseTag) <= Len(text)
    /\ Slice(text, i, i + Len(OpenTag)) = OpenTag
    /\ Slice(text, j, j + Len(CloseTag)) = CloseTag
    /\ MarkerFree(Slice(text, 0, i))
    /\ MarkerFree(Slice(text, i + Len(OpenTag), j))
    /\ MarkerFree(Slice(text, j + Len(CloseTag), Len(text)))

PartA(i, j) == Slice(text, 0, i)
PartB(i, j) == Slice(text, i + Len(OpenTag), j)
PartC(i, j) == Slice(text, j + Len(CloseTag), Len(text))

\* the text was fed in two calls and the boundary fell strictly inside the
\* open marker that starts at index i
SplitInsideOpen(i) ==
    /\ Len(fed) = 2
    /\ Concat(fed) = text
    /\ i < Len(fed[1])
    /\ Len(fed[1]) < i + Len(OpenTag)

\* C4: when "A<think>B</think>C" (A, B, C free of markers) is fed in two
\* process_chunk calls whose boundary falls inside "<think>", the final
\* visible text is A followed by C and the final reasoning text is B.
C4_SplitOpenTagRecovered ==
    \A i, j \in 0..Len(text) :
        (IsABC(i, j) /\ SplitInsideOpen(i)) =>
            /\ thinking.visible_content = PartA(i, j) \o PartC(i, j)
            /\ thinking.complete_thinking = PartB(i, j)

\* the text was fed in two calls and the boundary fell strictly inside the
\* close marker that starts at index j
SplitInsideClose(j) ==
    /\ Len(fed) = 2
    /\ Concat(fed) = text
    /\ j < Len(fed[1])
    /\ Len(fed[1]) < j + Len(CloseTag)

\* C18: when "A<think>B</think>C" (A, B, C free of markers) is fed in two
\* process_chunk calls whose boundary falls inside "</think>", the splitter
\* is INSIDE after the first call, and the second call returns finished =
\* true, leaves the state OUTSIDE and returns C as its visible delta.
C18_SplitCloseTagDetected ==
    \A i, j \in 0..Len(text) :
        (IsABC(i, j) /\ SplitInsideClose(j)) =>
            /\ process_chunk(NewThinkingProcessor, fed[1]).self.thinking_active
            /\ ret.finished
            /\ ~thinking.thinking_active
            /\ ret.new_visible = PartC(i, j)

\* the highest index where pat occurs in s, or -1
LastFind(s, pat) ==
    LET hits == {p \in 0..(Len(s) - Len(pat)) : SubSeq(s, p + 1, p + Len(pat)) = pat}
    IN  IF hits = {} THEN -1 ELSE CHOOSE p \in hits : \A q \in hits : p >= q

\* the markers of s open and close reasoning blocks in turn, read from the
\* state OUTSIDE (inside = FALSE) or INSIDE
RECURSIVE Alternating(_, _)
Alternating(s, inside) ==
    LET o == Find(s, OpenTag, 0)
        c == Find(s, CloseTag, 0)
    IN  IF o = -1 /\ c = -1 THEN TRUE
        ELSE IF ~inside
        THEN /\ o # -1
             /\ c = -1 \/ o < c
             /\ Alternating(Slice(s, o + Len(OpenTag), Len(s)), TRUE)
        ELSE /\ c # -1
             /\ o = -1 \/ c < o
             /\ Alternating(Slice(s, c + Len(CloseTag), Len(s)), FALSE)

\* a cut after n characters of s falls strictly inside a marker of s
CutInsideMarker(s, n) ==
    \E tag \in {OpenTag, CloseTag} :
        \E p \in 0..(Len(s) - Len(tag)) :
            Slice(s, p, p + Len(tag)) = tag /\ p < n /\ n < p + Len(tag)

\* no chunk fed so far ends strictly inside a marker of the text
KeepsMarkersWhole ==
    \A k \in 1..Len(fed) : ~CutInsideMarker(text, Len(Concat(SubSeq(fed, 1, k))))

\* the content of the last reasoning block closed in s, empty if none is
LastClosedBlock(s) ==
    LET c == LastFind(s, CloseTag)
    IN  IF c = -1 THEN <<>>
        ELSE LET o == LastFind(Slice(s, 0, c), OpenTag)
             IN  Slice(s, o + Len(OpenTag), c)

\* C21: for a text whose markers open and close reasoning blocks in turn,
\* fed in chunks that keep the markers whole, the completed reasoning text
\* after every call is the content of the last block closed so far.
C21_MostRecentBlockOnly ==
    (Alternating(text, FALSE) /\ KeepsMarkersWhole) =>
        get_complete_thinking(thinking) = LastClosedBlock(Concat(fed))

\* the first call closed the block "b" and left a second block open with
\* "e" in it
C21_Witness ==
    /\ Len(fed) = 1
    /\ Alternating(text, FALSE)
    /\ KeepsMarkersWhole
    /\ thinking.thinking_active
    /\ thinking.thinking_content = <<"e">>
    /\ get_complete_thinking(thinking) = <<"b">>

\* s read one character at a time from the state inside: a marker that
\* stands whole at the reading position and fits the state is consumed and
\* switches the state, every other character goes to the reasoning text
\* when the state is INSIDE and to the visible text when it is OUTSIDE
RECURSIVE ReadChars(_, _)
ReadChars(s, acc) ==
    IF s = <<>> THEN acc
    ELSE IF ~acc.inside /\ StartsWith(s, OpenTag)
    THEN ReadChars(Slice(s, Len(OpenTag), Len(s)),
                   [acc EXCEPT !.inside = TRUE, !.opens = @ + 1])
    ELSE IF acc.inside /\ StartsWith(s, CloseTag)
    THEN ReadChars(Slice(s, Len(CloseTag), Len(s)),
                   [acc EXCEPT !.inside = FALSE, !.closes = @ + 1])
    ELSE IF acc.inside
    THEN ReadChars(Tail(s), [acc EXCEPT !.reasoning = @ \o <<Head(s)>>])
    ELSE ReadChars(Tail(s), [acc EXCEPT !.visible = @ \o <<Head(s)>>])

\* the chunks read one after the other, no marker reaching across two chunks
RECURSIVE ReadChunks(_, _)
ReadChunks(chunks, acc) ==
    IF chunks = <<>> THEN acc
    ELSE ReadChunks(Tail(chunks), ReadChars(Head(chunks), acc))

\* nothing read yet, state OUTSIDE
NothingRead ==
    [inside |-> FALSE, visible |-> <<>>, reasoning |-> <<>>, opens |-> 0, closes |-> 0]

\* C27: after every call the buffer is empty, and the visible deltas and
\* the reasoning deltas returned so far are, in input order, the characters
\* fed that are not part of a consumed marker: those read in the state
\* OUTSIDE and those read in the state INSIDE; with the markers consumed
\* they add up to the characters fed.
C27_ConservesText ==
    LET read == ReadChunks(fed, NothingRead)
    IN  /\ thinking.buffer = <<>>
        /\ visible_out = read.visible
        /\ thinking_out = read.reasoning
        /\ thinking.thinking_active = read.inside
        /\ thinking.visible_content = visible_out
        /\ Len(visible_out) + Len(thinking_out)
              + Len(OpenTag) * read.opens + Len(CloseTag) * read.closes = FedLen

\* two chunks were fed, the first ending inside a reasoning block, and both
\* visible and reasoning text came out
C27_Witness ==
    /\ Len(fed) = 2
    /\ process_chunk(NewThinkingProcessor, fed[1]).self.thinking_active
    /\ ~thinking.thinking_active
    /\ visible_out # <<>>
    /\ thinking_out # <<>>
    /\ Len(visible_out) + Len(thinking_out) + Len(OpenTag) + Len(CloseTag) = FedLen

\* C28: when the whole text has been fed in chunks that keep its markers
\* whole, the processor is in the state, and holds the visible text and
\* the current and completed reasoning text, that feeding the text in one
\* chunk leaves.
C28_FragmentationIndependent ==
    (Concat(fed) = text /\ KeepsMarkersWhole) =>
        thinking = process_chunk(NewThinkingProcessor, text).self

\* a text with a reasoning block was fed in two chunks, cut inside the
\* block, and the block is closed
C28_Witness ==
    /\ Len(fed) = 2
    /\ Concat(fed) = text
    /\ KeepsMarkersWhole
    /\ process_chunk(NewThinkingProcessor, fed[1]).self.thinking_active
    /\ process_chunk(NewThinkingProcessor, fed[1]).self.thinking_content # <<>>
    /\ ~thinking.thinking_active
    /\ Len(get_complete_thinking(thinking)) >= 2

\* C5: neither the accumulated visible text nor a returned visible delta
\* ever contains "<think>" or "</think>".
C5_NoMarkupInVisible ==
    /\ MarkerFree(thinking.visible_content)
    /\ MarkerFree(ret.new_visible)

\* C6: "A<think>B</think>C" (A, B, C free of markers) fed to a fresh
\* processor in one call leaves visible text A followed by C, reasoning
\* text B, the state OUTSIDE, and returns started = finished = true.
C6_SingleFragment ==
    \A i, j \in 0..Len(text) :
        (IsABC(i, j) /\ fed = <<text>>) =>
            /\ thinking.visible_content = PartA(i, j) \o PartC(i, j)
            /\ get_display_content(thinking) = PartA(i, j) \o PartC(i, j)
            /\ ret.new_visible = PartA(i, j) \o PartC(i, j)
            /\ thinking.thinking_content = PartB(i, j)
            /\ get_complete_thinking(thinking) = PartB(i, j)
            /\ ret.new_thinking = PartB(i, j)
            /\ ~thinking.thinking_active
            /\ ret.started
            /\ ret.finished

\* the whole of "A<think>B</think>C" with A, B, C non-empty was fed in one call
C6_Witness ==
    \E i, j \in 0..Len(text) :
        /\ IsABC(i, j)
        /\ fed = <<text>>
        /\ PartA(i, j) # <<>>
        /\ PartB(i, j) # <<>>
        /\ PartC(i, j) # <<>>

\* C7: while what has been fed holds no marker, the visible deltas and the
\* visible text both equal the concatenation of the chunks fed, every
\* reasoning delta and the reasoning text are empty, and the state is OUTSIDE.
C7_Transparent ==
    (fed # <<>> /\ MarkerFree(Concat(fed))) =>
        /\ visible_out = Concat(fed)
        /\ thinking.visible_content = Concat(fed)
        /\ ret.new_visible = fed[Len(fed)]
        /\ thinking_out = <<>>
        /\ ret.new_thinking = <<>>
        /\ thinking.thinking_content = <<>>
        /\ thinking.complete_thinking = <<>>
        /\ ~thinking.thinking_active
        /\ ~ret.started
        /\ ~ret.finished

\* text without a marker that ends in the start of a marker has been fed
C7_Witness ==
    /\ fed # <<>>
    /\ MarkerFree(Concat(fed))
    /\ Len(Concat(fed)) > 1
    /\ Concat(fed)[Len(Concat(fed))] = "<"
    /\ visible_out = Concat(fed)

(***************************************************************************)
(* Claims about the transfers (TransferSpec).                              *)
(***************************************************************************)
\* the call has returned and the transport did not fail: what it returned is
\* its verdict on the stream
Verdict == pc = "returned" /\ exit \notin {"open", "fail"}

\* a {status: "success"} line
IsSuccessLine(line) ==
    line.kind = "object" /\ line.status = "success" /\ line.error = Absent

\* an {error: x} line
IsErrorLine(line) ==
    line.kind = "object" /\ line.status = Absent /\ line.error # Absent

\* a line that is neither: malformed, or an object with another status or
\* none and no error
IsOtherLine(line) ==
    \/ line.kind # "object"
    \/ line.status # "success" /\ line.error = Absent

\* C8 as stated: the call returns True when the stream ends in a
\* {status: "success"} line, False when it ends in an {error: x} line, and
\* False when it ends with neither.
C8_OutcomeByLastLine ==
    Verdict =>
        /\ (stream # <<>> /\ IsSuccessLine(stream[Len(stream)])) => result = TRUE
        /\ (stream # <<>> /\ IsErrorLine(stream[Len(stream)])) => result = FALSE
        /\ (stream = <<>> \/ IsOtherLine(stream[Len(stream)])) => result = FALSE

\* every line is a JSON object with a status or an error, never both
PlainEvents(st) ==
    \A k \in 1..Len(st) :
        /\ st[k].kind = "object"
        /\ st[k].status = Absent \/ st[k].error = Absent

\* the index of the first {status: "success"} or {error: x} line, 0 if none
FirstTerminal(st) ==
    LET ks == {k \in 1..Len(st) : IsSuccessLine(st[k]) \/ IsErrorLine(st[k])}
    IN  IF ks = {} THEN 0 ELSE CHOOSE k \in ks : \A m \in ks : k <= m

\* C8 (amended): on a stream of JSON objects that each hold a status or an
\* error but not both, the first {status: "success"} or {error: x} line
\* decides: the call returns True when it is a success line, False when it
\* is an error line, and False when the stream holds neither.
C8_FirstTerminalDecides ==
    (Verdict /\ PlainEvents(stream)) =>
        LET k == FirstTerminal(stream)
        IN  result = (k # 0 /\ IsSuccessLine(stream[k]))

\* pull_model has returned True on a stream of several plain events ending in
\* the success line
C8_Witness ==
    /\ Verdict
    /\ op = "pull"
    /\ PlainEvents(stream)
    /\ Len(stream) >= 2
    /\ FirstTerminal(stream) = Len(stream)
    /\ IsSuccessLine(stream[Len(stream)])
    /\ result = TRUE

\* the loop of call o run over the lines of st, none of them skipped as
\* malformed: what the call returns
RECURSIVE RunLoop(_, _)
RunLoop(o, st) ==
    IF st = <<>> THEN FALSE
    ELSE LET step == LineStep(o, Head(st))
         IN  IF step.act = "continue" THEN RunLoop(o, Tail(st))
             ELSE step.act = "break"

IsObjectLine(line) == line.kind = "object"

\* C9: a line that is empty, whitespace-only, not JSON, or JSON that is no
\* object is skipped without raising: the call returns what it returns on
\* the stream without those lines.
C9_MalformedLinesSkipped ==
    Verdict => result = RunLoop(op, SelectSeq(stream, IsObjectLine))

\* the event the read loop has just handled
LastEvent == lines[Len(lines)]

\* the label shows the percentage p (in tenths)
ShowsPercent(lbl, p) == Len(lbl) = 4 /\ lbl[1] = "Downloading" /\ lbl[4] = p

\* completed / total * 100 rounded to one decimal, in tenths
ExactPercent(c, t) == Tenths(100 * c, t)

\* C15: when the event just handled carries both byte counts, the label of
\* the progress display shows completed / total * 100, and 0 when total is
\* 0, and the event has not made the call raise.
C15_ProgressPercentage ==
    (pc # "idle" /\ lines # <<>> /\ HasCounts(LastEvent)) =>
        /\ exit # "raise"
        /\ ShowsPercent(label, IF LastEvent.total = 0 THEN 0
                               ELSE ExactPercent(LastEvent.completed, LastEvent.total))

\* the same for pull_model and the events with status "downloading" alone,
\* where it holds
PullDownloadingPercentage ==
    (pc # "idle" /\ lines # <<>> /\ op = "pull" /\ HasCounts(LastEvent)
       /\ StatusOf(LastEvent) = "downloading") =>
        /\ exit # "raise"
        /\ ShowsPercent(label, IF LastEvent.total = 0 THEN 0
                               ELSE ExactPercent(LastEvent.completed, LastEvent.total))
        /\ (LastEvent.completed = 50 /\ LastEvent.total = 200) => label[4] = 250

\* C16: an event whose error field is set is the last one the call reads,
\* and the call has returned False, whatever status the event carries.
C16_ErrorWinsImmediately ==
    \A k \in 1..Len(lines) :
        (IsObjectLine(lines[k]) /\ HasError(lines[k])) =>
            /\ k = Len(lines)
            /\ pc = "returned"
            /\ result = FALSE

\* C17 as stated: an event with status "success" is the last one the call
\* reads, and the call has returned True.
C17_SuccessTerminal ==
    \A k \in 1..Len(lines) :
        (IsObjectLine(lines[k]) /\ StatusOf(lines[k]) = "success") =>
            /\ k = Len(lines)
            /\ pc = "returned"
            /\ result = TRUE

\* C17 (amended): an event with status "success" and no error field is the
\* last one the call reads, and the call has returned True.
C17_PlainSuccessTerminal ==
    \A k \in 1..Len(lines) :
        (IsObjectLine(lines[k]) /\ StatusOf(lines[k]) = "success"
           /\ ~HasError(lines[k])) =>
            /\ k = Len(lines)
            /\ pc = "returned"
            /\ result = TRUE

\* create_model has returned True at a success event that an error line
\* follows in the stream
C17_Witness ==
    /\ pc = "returned"
    /\ op = "create"
    /\ result = TRUE
    /\ lines # <<>>
    /\ IsSuccessLine(lines[Len(lines)])
    /\ Len(lines) < Len(stream)
    /\ IsErrorLine(stream[Len(lines) + 1])

\* C10: a SIGINT received while the call reads its stream stops the read
\* loop and the call returns False, even if a success line follows.
C10_InterruptFailsTransfer ==
    (pc = "returned" /\ interrupted) => result = FALSE

====
